---- MODULE Spec2Model ----
(***************************************************************************)
(* Model of fuzzy_system.py: the module-level assessment script (patient   *)
(* age -> category -> thresholds -> threshold evaluation -> alert) and the *)
(* signal-processing functions calculate_heart_rate and                    *)
(* calculate_oxygen_saturation.                                            *)
(*                                                                         *)
(* Python values are modelled as records tagged with "kind": None is       *)
(* [kind |-> "None"], a number is [kind |-> "num", num |-> n, den |-> d],  *)
(* a dict has kind "dict".  The outcome of a call is                       *)
(* [kind |-> "return", ...] or [kind |-> "raise", exc |-> <exception>].    *)
(***************************************************************************)
EXTENDS Integers, Sequences, FiniteSets, TLC

VARIABLES
    pc,                       \* position of the module-level script
    dob_str,                  \* /Patient/<id>/Date_of_birth as stored
    today,                    \* datetime.today() at the time of the run
    patient_age,
    category,
    thresh,
    respiratory_rate_value,
    oxygen_saturation_value,
    heart_rate_value,
    reasons,
    alerts,                   \* what was set under /Patient/<id>/Alert
    out,                      \* lines printed
    raised,                   \* exception that ended the script, or "none"
    ppg_signal,               \* arguments and outcome of calculate_heart_rate
    sampling_rate,
    hr_result,
    ppg_red,                  \* arguments and outcome of calculate_oxygen_saturation
    ppg_ir,
    spo2_result

vars == <<pc, dob_str, today, patient_age, category, thresh,
          respiratory_rate_value, oxygen_saturation_value, heart_rate_value,
          reasons, alerts, out, raised,
          ppg_signal, sampling_rate, hr_result, ppg_red, ppg_ir, spo2_result>>

scriptVars == <<pc, dob_str, today, patient_age, category, thresh,
                respiratory_rate_value, oxygen_saturation_value, heart_rate_value,
                reasons, alerts, out, raised>>

hrVars == <<ppg_signal, sampling_rate, hr_result>>

spo2Vars == <<ppg_red, ppg_ir, spo2_result>>

-----------------------------------------------------------------------------
(* Python values *)

None == [kind |-> "None"]

\* a Python number num / den, den > 0
Num(n, d) == [kind |-> "num", num |-> n, den |-> d]

IntVal(n) == Num(n, 1)

\* a < k for a number a and an integer k
NumLess(a, k) == a.num < k * a.den

\* a <= k
NumLessEq(a, k) == a.num <= k * a.den

Idle == [kind |-> "idle"]

-----------------------------------------------------------------------------
(* Bounds of the model *)

\* vitals are drawn within Margin of a cutoff (and at the ends of their range)
Margin == 1

\* the oldest patient considered, in years
MaxAge == 30

-----------------------------------------------------------------------------
(* Patient age: get_patient_age *)

patient_id == "1"

Date(y, m, d) == [year |-> y, month |-> m, day |-> d]

\* (a1, a2) < (b1, b2) on Python tuples
TupleLess(a1, a2, b1, b2) == a1 < b1 \/ (a1 = b1 /\ a2 < b2)

\* datetime.strptime(dob_str, "%d/%m/%Y") accepts the string
ValidDate(s) == s.month \in 1..12 /\ s.day \in 1..31

\* the outcome of get_patient_age when the stored value is dob and the clock reads now
get_patient_age(dob, now) ==
    IF dob = None
    THEN [kind |-> "return", value |-> None]
    ELSE IF ~ValidDate(dob)
    THEN [kind |-> "raise", exc |-> "ValueError"]
    ELSE [kind |-> "return",
          value |-> IntVal(now.year - dob.year
                           - (IF TupleLess(now.month, now.day, dob.month, dob.day)
                              THEN 1 ELSE 0))]

-----------------------------------------------------------------------------
(* Category and thresholds *)

\* get_patient_category with the boundary ages in the lower category
get_patient_category_le(age) ==
    IF age = None THEN "unknown"
    ELSE IF NumLessEq(age, 1) THEN "infant"
    ELSE IF NumLessEq(age, 5) THEN "preschooler"
    ELSE IF NumLessEq(age, 13) THEN "school_age"
    ELSE "adult"

get_patient_category(age) ==
    IF age = None THEN "unknown"
    ELSE IF NumLess(age, 1) THEN "infant"
    ELSE IF NumLess(age, 5) THEN "preschooler"
    ELSE IF NumLess(age, 13) THEN "school_age"
    ELSE "adult"

Thresholds(spo2, rr, hrlow, hrhigh) ==
    [kind |-> "dict", oxygen_saturation |-> spo2, respiratory_rate |-> rr,
     heart_rate_low |-> hrlow, heart_rate_high |-> hrhigh]

\* get_thresholds with the adult row's oxygen cutoff copied from the row above
get_thresholds_copied(c) ==
    IF c = "infant" THEN Thresholds(94, 60, 60, 120)
    ELSE IF c = "preschooler" THEN Thresholds(94, 40, 60, 110)
    ELSE IF c = "school_age" THEN Thresholds(94, 30, 60, 100)
    ELSE IF c = "adult" THEN Thresholds(94, 25, 60, 100)
    ELSE None

\* get_thresholds falling back to the adult row
get_thresholds_default(c) ==
    IF c = "infant" THEN Thresholds(94, 60, 60, 120)
    ELSE IF c = "preschooler" THEN Thresholds(94, 40, 60, 110)
    ELSE IF c = "school_age" THEN Thresholds(94, 30, 60, 100)
    ELSE Thresholds(92, 25, 60, 100)

get_thresholds(c) ==
    IF c = "infant" THEN Thresholds(94, 60, 60, 120)
    ELSE IF c = "preschooler" THEN Thresholds(94, 40, 60, 110)
    ELSE IF c = "school_age" THEN Thresholds(94, 30, 60, 100)
    ELSE IF c = "adult" THEN Thresholds(92, 25, 60, 100)
    ELSE None

KnownCategories == {"infant", "preschooler", "school_age", "adult"}

\* Python truthiness of the value get_thresholds returns
Truthy(t) == t # None

-----------------------------------------------------------------------------
(* Simulated vitals: np.random.uniform(low, high) draws from [low, high) *)

RRLow == 10

RRHigh == 60

SpO2Low == 85

SpO2High == 100

HRLow == 50

HRHigh == 150

Abs(x) == IF x < 0 THEN -x ELSE x

AllThresholds == {get_thresholds(c) : c \in KnownCategories}

\* the values of [low, high) the model draws: the ends of the range, the
\* values within Margin of a cutoff, and the extra values listed
Near(low, high, cutoffs, extra) ==
    {v \in low..(high - 1) :
        \/ v \in {low, high - 1} \cup extra
        \/ \E c \in cutoffs : Abs(v - c) <= Margin}

OxygenValues ==
    Near(SpO2Low, SpO2High, {t.oxygen_saturation : t \in AllThresholds}, {90})

RespiratoryValues ==
    Near(RRLow, RRHigh, {t.respiratory_rate : t \in AllThresholds}, {50})

HeartValues ==
    Near(HRLow, HRHigh,
         {t.heart_rate_low : t \in AllThresholds}
             \cup {t.heart_rate_high : t \in AllThresholds}, {130})

-----------------------------------------------------------------------------
(* Threshold evaluation, lines 102-108 *)

LowOxygen(v, t) ==
    [label |-> "Low Oxygen Saturation", value |-> v,
     cutoffs |-> <<t.oxygen_saturation>>]

HighRespiratory(v, t) ==
    [label |-> "High Respiratory Rate", value |-> v,
     cutoffs |-> <<t.respiratory_rate>>]

AbnormalHeart(v, t) ==
    [label |-> "Abnormal Heart Rate", value |-> v,
     cutoffs |-> <<t.heart_rate_low, t.heart_rate_high>>]

\* the oxygen check with a value at the cutoff counted as a violation
OxygenViolated_le(spo2, t) == spo2 <= t.oxygen_saturation

OxygenViolated(spo2, t) == spo2 < t.oxygen_saturation

RespiratoryViolated(rr, t) == rr > t.respiratory_rate

HeartViolated(hr, t) == hr < t.heart_rate_low \/ hr > t.heart_rate_high

\* the list reasons after the three checks, in the order the script makes them
EvaluateReasons(spo2, rr, hr, t) ==
    LET r0 == <<>>
        r1 == IF OxygenViolated(spo2, t) THEN Append(r0, LowOxygen(spo2, t)) ELSE r0
        r2 == IF RespiratoryViolated(rr, t)
              THEN Append(r1, HighRespiratory(rr, t)) ELSE r1
        r3 == IF HeartViolated(hr, t) THEN Append(r2, AbnormalHeart(hr, t)) ELSE r2
    IN r3

-----------------------------------------------------------------------------
(* Alerting and output *)

alert_message == "ALERT: Seek Emergency Care (ER) Immediately!"

\* " | ".join(reasons): the reasons in order, separated by " | "
JoinReasons(rs) == [sep |-> " | ", parts |-> rs]

\* send_alert_to_firebase: the record set under /Patient/<patient_id>/Alert/<uuid4>
\* (the uuid key and the timestamp are not modelled)
send_alert_to_firebase(pid, message, reason) ==
    [patient |-> pid, message |-> message, reason |-> reason]

ErrorLine == [text |-> "Error: Unable to determine patient category or thresholds."]

AlertLine(message, reason) == [text |-> message, reason |-> reason]

capitalize(c) ==
    CASE c = "infant" -> "Infant"
      [] c = "preschooler" -> "Preschooler"
      [] c = "school_age" -> "School_age"
      [] c = "adult" -> "Adult"
      [] OTHER -> "Unknown"

ReportLines(c, spo2, rr, hr, t) ==
    << [text |-> "Category", shown |-> capitalize(c)],
       [text |-> "Oxygen Saturation", value |-> spo2,
        cutoffs |-> <<t.oxygen_saturation>>],
       [text |-> "Respiratory Rate", value |-> rr,
        cutoffs |-> <<t.respiratory_rate>>],
       [text |-> "Heart Rate", value |-> hr,
        cutoffs |-> <<t.heart_rate_low, t.heart_rate_high>>] >>

-----------------------------------------------------------------------------
(* The module-level script, lines 86-119 *)

Today == Date(2026, 6, 15)

MonthDays == {<<1, 1>>, <<6, 14>>, <<6, 15>>, <<6, 16>>}

AgeOffsets == {-1, 0, 1, 2, 4, 5, 6, 12, 13, 14, MaxAge}

\* what the patient record may hold: nothing, a malformed string, or a date
DobValues ==
    {None, Date(Today.year, 13, 1)}
        \cup {Date(Today.year - a, md[1], md[2]) : a \in AgeOffsets, md \in MonthDays}

ScriptIdle ==
    /\ pc = "off"
    /\ dob_str = None
    /\ today = Today
    /\ patient_age = Idle
    /\ category = "unset"
    /\ thresh = Idle
    /\ respiratory_rate_value = 0
    /\ oxygen_saturation_value = 0
    /\ heart_rate_value = 0
    /\ reasons = <<>>
    /\ alerts = <<>>
    /\ out = <<>>
    /\ raised = "none"

ScriptInit ==
    /\ pc = "fetch"
    /\ dob_str \in DobValues
    /\ today = Today
    /\ patient_age = Idle
    /\ category = "unset"
    /\ thresh = Idle
    /\ respiratory_rate_value = 0
    /\ oxygen_saturation_value = 0
    /\ heart_rate_value = 0
    /\ reasons = <<>>
    /\ alerts = <<>>
    /\ out = <<>>
    /\ raised = "none"

\* line 89
FetchAge ==
    /\ pc = "fetch"
    /\ LET r == get_patient_age(dob_str, today)
       IN IF r.kind = "raise"
          THEN /\ raised' = r.exc
               /\ pc' = "done"
               /\ UNCHANGED patient_age
          ELSE /\ patient_age' = r.value
               /\ pc' = "categorize"
               /\ UNCHANGED raised
    /\ UNCHANGED <<dob_str, today, category, thresh, respiratory_rate_value,
                   oxygen_saturation_value, heart_rate_value, reasons, alerts, out>>
    /\ UNCHANGED <<hrVars, spo2Vars>>

\* line 90
Categorize ==
    /\ pc = "categorize"
    /\ category' = get_patient_category(patient_age)
    /\ pc' = "thresholds"
    /\ UNCHANGED <<dob_str, today, patient_age, thresh, respiratory_rate_value,
                   oxygen_saturation_value, heart_rate_value, reasons, alerts, out,
                   raised>>
    /\ UNCHANGED <<hrVars, spo2Vars>>

\* line 91
LookupThresholds ==
    /\ pc = "thresholds"
    /\ thresh' = get_thresholds(category)
    /\ pc' = "check"
    /\ UNCHANGED <<dob_str, today, patient_age, category, respiratory_rate_value,
                   oxygen_saturation_value, heart_rate_value, reasons, alerts, out,
                   raised>>
    /\ UNCHANGED <<hrVars, spo2Vars>>

\* lines 93-94: the script ends here when there is no category or no thresholds
CheckFailed ==
    /\ pc = "check"
    /\ category = "unknown" \/ ~Truthy(thresh)
    /\ out' = Append(out, ErrorLine)
    /\ pc' = "done"
    /\ UNCHANGED <<dob_str, today, patient_age, category, thresh,
                   respiratory_rate_value, oxygen_saturation_value, heart_rate_value,
                   reasons, alerts, raised>>
    /\ UNCHANGED <<hrVars, spo2Vars>>

\* lines 95-99
Simulate ==
    /\ pc = "check"
    /\ ~(category = "unknown" \/ ~Truthy(thresh))
    /\ respiratory_rate_value' \in RespiratoryValues
    /\ oxygen_saturation_value' \in OxygenValues
    /\ heart_rate_value' \in HeartValues
    /\ pc' = "evaluate"
    /\ UNCHANGED <<dob_str, today, patient_age, category, thresh, reasons, alerts,
                   out, raised>>
    /\ UNCHANGED <<hrVars, spo2Vars>>

\* lines 102-108
Evaluate ==
    /\ pc = "evaluate"
    /\ reasons' = EvaluateReasons(oxygen_saturation_value, respiratory_rate_value,
                                  heart_rate_value, thresh)
    /\ pc' = "alert"
    /\ UNCHANGED <<dob_str, today, patient_age, category, thresh,
                   respiratory_rate_value, oxygen_saturation_value, heart_rate_value,
                   alerts, out, raised>>
    /\ UNCHANGED <<hrVars, spo2Vars>>

\* lines 110-114
SendAlert ==
    /\ pc = "alert"
    /\ reasons # <<>>
    /\ LET reason_text == JoinReasons(reasons)
       IN /\ out' = Append(out, AlertLine(alert_message, reason_text))
          /\ alerts' = Append(alerts,
                 send_alert_to_firebase(patient_id, alert_message, reason_text))
    /\ pc' = "report"
    /\ UNCHANGED <<dob_str, today, patient_age, category, thresh,
                   respiratory_rate_value, oxygen_saturation_value, heart_rate_value,
                   reasons, raised>>
    /\ UNCHANGED <<hrVars, spo2Vars>>

\* the alert sent whether or not there are reasons
NoAlert_sends ==
    /\ pc = "alert"
    /\ reasons = <<>>
    /\ alerts' = Append(alerts,
           send_alert_to_firebase(patient_id, alert_message, JoinReasons(reasons)))
    /\ pc' = "report"
    /\ UNCHANGED <<dob_str, today, patient_age, category, thresh,
                   respiratory_rate_value, oxygen_saturation_value, heart_rate_value,
                   reasons, out, raised>>
    /\ UNCHANGED <<hrVars, spo2Vars>>

\* line 110, the condition false
NoAlert ==
    /\ pc = "alert"
    /\ reasons = <<>>
    /\ pc' = "report"
    /\ UNCHANGED <<dob_str, today, patient_age, category, thresh,
                   respiratory_rate_value, oxygen_saturation_value, heart_rate_value,
                   reasons, alerts, out, raised>>
    /\ UNCHANGED <<hrVars, spo2Vars>>

\* lines 116-119
Report ==
    /\ pc = "report"
    /\ out' = out \o ReportLines(category, oxygen_saturation_value,
                                 respiratory_rate_value, heart_rate_value, thresh)
    /\ pc' = "done"
    /\ UNCHANGED <<dob_str, today, patient_age, category, thresh,
                   respiratory_rate_value, oxygen_saturation_value, heart_rate_value,
                   reasons, alerts, raised>>
    /\ UNCHANGED <<hrVars, spo2Vars>>

ScriptNext ==
    \/ FetchAge
    \/ Categorize
    \/ LookupThresholds
    \/ CheckFailed
    \/ Simulate
    \/ Evaluate
    \/ SendAlert
    \/ NoAlert
    \/ Report

-----------------------------------------------------------------------------
(* Rational numbers, for the float arithmetic of the signal functions      *)
(* (rounding is not modelled)                                              *)

Rat(n, d) == [num |-> n, den |-> d]

RatEq(a, b) == a.num * b.den = b.num * a.den

RatAdd(a, b) == Rat(a.num * b.den + b.num * a.den, a.den * b.den)

\* a / k for an integer k > 0
RatDivInt(a, k) == Rat(a.num, a.den * k)

\* k / a for an integer k and a > 0
IntDivRat(k, a) == Rat(k * a.den, a.num)

-----------------------------------------------------------------------------
(* scipy.signal.find_peaks(x, distance=d), as calculate_heart_rate calls   *)
(* it.  x is a sequence; Python's x[i] is At(x, i).                        *)

At(x, i) == x[i + 1]

\* while i_ahead < i_max and x[i_ahead] == x[i]: i_ahead += 1
RECURSIVE PlateauEnd(_, _, _)
PlateauEnd(x, i, i_ahead) ==
    IF i_ahead < Len(x) - 1 /\ At(x, i_ahead) = At(x, i)
    THEN PlateauEnd(x, i, i_ahead + 1)
    ELSE i_ahead

\* the midpoints of the local maxima of x found from index i on; the first
\* and the last sample are never maxima, a plateau counts once, at its middle
RECURSIVE LocalMaxima(_, _)
LocalMaxima(x, i) ==
    IF i >= Len(x) - 1 THEN <<>>
    ELSE IF At(x, i - 1) < At(x, i)
    THEN LET i_ahead == PlateauEnd(x, i, i + 1)
         IN IF At(x, i_ahead) < At(x, i)
            THEN <<(i + (i_ahead - 1)) \div 2>> \o LocalMaxima(x, i_ahead + 1)
            ELSE LocalMaxima(x, i + 1)
    ELSE LocalMaxima(x, i + 1)

\* math.ceil(sampling_rate / 2)
CeilHalf(sr) == (sr + 1) \div 2

\* k = j - 1; while 0 <= k and peaks[j] - peaks[k] < distance: keep[k] = 0; k -= 1
RECURSIVE DropLeft(_, _, _, _, _)
DropLeft(peaks, j, k, distance, keep) ==
    IF k >= 1 /\ peaks[j] - peaks[k] < distance
    THEN DropLeft(peaks, j, k - 1, distance, keep \ {k})
    ELSE keep

\* k = j + 1; while k < size and peaks[k] - peaks[j] < distance: keep[k] = 0; k += 1
RECURSIVE DropRight(_, _, _, _, _)
DropRight(peaks, j, k, distance, keep) ==
    IF k <= Len(peaks) /\ peaks[k] - peaks[j] < distance
    THEN DropRight(peaks, j, k + 1, distance, keep \ {k})
    ELSE keep

\* the last position of np.argsort(priority) among todo: the highest peak,
\* and of equally high peaks the rightmost (the sort is stable for the
\* short arrays considered here)
Highest(x, peaks, todo) ==
    CHOOSE j \in todo : \A k \in todo :
        \/ At(x, peaks[k]) < At(x, peaks[j])
        \/ At(x, peaks[k]) = At(x, peaks[j]) /\ k <= j

\* _select_by_peak_distance: highest first, a kept peak drops its neighbours
\* closer than distance
RECURSIVE SelectByDistance(_, _, _, _, _)
SelectByDistance(x, peaks, distance, todo, keep) ==
    IF todo = {} THEN keep
    ELSE LET j == Highest(x, peaks, todo)
         IN IF j \notin keep
            THEN SelectByDistance(x, peaks, distance, todo \ {j}, keep)
            ELSE SelectByDistance(x, peaks, distance, todo \ {j},
                     DropRight(peaks, j, j + 1, distance,
                         DropLeft(peaks, j, j - 1, distance, keep)))

\* peaks[keep]
RECURSIVE Kept(_, _, _)
Kept(peaks, keep, k) ==
    IF k > Len(peaks) THEN <<>>
    ELSE (IF k \in keep THEN <<peaks[k]>> ELSE <<>>) \o Kept(peaks, keep, k + 1)

\* the indices find_peaks returns, for a distance >= 1
find_peaks(x, sr) ==
    LET peaks == LocalMaxima(x, 1)
        keep == SelectByDistance(x, peaks, CeilHalf(sr),
                                 1..Len(peaks), 1..Len(peaks))
    IN Kept(peaks, keep, 1)

-----------------------------------------------------------------------------
(* calculate_heart_rate *)

RandLow == 50

RandHigh == 150

\* np.diff(peaks) / sampling_rate
RECURSIVE Intervals(_, _, _)
Intervals(peaks, sr, k) ==
    IF k >= Len(peaks) THEN <<>>
    ELSE <<Rat(peaks[k + 1] - peaks[k], sr)>> \o Intervals(peaks, sr, k + 1)

RECURSIVE RatSum(_, _)
RatSum(rs, k) ==
    IF k > Len(rs) THEN Rat(0, 1) ELSE RatAdd(rs[k], RatSum(rs, k + 1))

\* the mean taken over the number of peaks instead of the number of intervals
Mean_peaks(rs) == RatDivInt(RatSum(rs, 1), Len(rs) + 1)

\* np.mean
Mean(rs) == RatDivInt(RatSum(rs, 1), Len(rs))

\* the outcomes of calculate_heart_rate(sig, sr): find_peaks refuses a
\* distance below 1; with fewer than two peaks the value is drawn at random
HeartRateOutcomes(sig, sr) ==
    IF sr < 2
    THEN {[kind |-> "raise", exc |-> "ValueError"]}
    ELSE LET peaks == find_peaks(sig, sr)
         IN IF Len(peaks) > 1
            THEN {[kind |-> "return",
                   value |-> IntDivRat(60, Mean(Intervals(peaks, sr, 1)))]}
            ELSE {[kind |-> "return", value |-> Rat(r, 1)] :
                      r \in RandLow..(RandHigh - 1)}

\* the longest signal and the largest sample and sampling rate considered
MaxLen == 8

MaxSample == 1

MaxRate == 5

RECURSIVE SeqsUpTo(_, _)
SeqsUpTo(S, n) ==
    IF n = 0 THEN {<<>>}
    ELSE LET shorter == SeqsUpTo(S, n - 1)
         IN shorter \cup {Append(q, v) : q \in {t \in shorter : Len(t) = n - 1}, v \in S}

Signals == SeqsUpTo(0..MaxSample, MaxLen)

HRIdle ==
    /\ ppg_signal = <<>>
    /\ sampling_rate = 0
    /\ hr_result = Idle

HRInit ==
    /\ ppg_signal \in Signals
    /\ sampling_rate \in 1..MaxRate
    /\ hr_result = Idle

CallHeartRate ==
    /\ hr_result = Idle
    /\ hr_result' \in HeartRateOutcomes(ppg_signal, sampling_rate)
    /\ UNCHANGED <<ppg_signal, sampling_rate>>
    /\ UNCHANGED <<scriptVars, spo2Vars>>

-----------------------------------------------------------------------------
(* IEEE-754 values, for calculate_oxygen_saturation: a NaN, an infinity, a *)
(* signed zero, or a finite non-zero number sgn * num / den (num, den > 0);*)
(* numpy divides by zero without raising.  Rounding is not modelled.       *)

NaN == [cls |-> "nan", sgn |-> 1, num |-> 0, den |-> 1]

Inf(s) == [cls |-> "inf", sgn |-> s, num |-> 0, den |-> 1]

Zero(s) == [cls |-> "zero", sgn |-> s, num |-> 0, den |-> 1]

Fin(s, n, d) == [cls |-> "fin", sgn |-> s, num |-> n, den |-> d]

\* the float n / d of integers n and d > 0
FromRat(n, d) ==
    IF n = 0 THEN Zero(1)
    ELSE IF n < 0 THEN Fin(-1, -n, d)
    ELSE Fin(1, n, d)

FDiv(a, b) ==
    IF a.cls = "nan" \/ b.cls = "nan" THEN NaN
    ELSE IF a.cls = "inf" /\ b.cls = "inf" THEN NaN
    ELSE IF a.cls = "zero" /\ b.cls = "zero" THEN NaN
    ELSE IF a.cls = "inf" \/ b.cls = "zero" THEN Inf(a.sgn * b.sgn)
    ELSE IF a.cls = "zero" \/ b.cls = "inf" THEN Zero(a.sgn * b.sgn)
    ELSE Fin(a.sgn * b.sgn, a.num * b.den, a.den * b.num)

FMul(a, b) ==
    IF a.cls = "nan" \/ b.cls = "nan" THEN NaN
    ELSE IF a.cls = "inf" /\ b.cls = "zero" THEN NaN
    ELSE IF a.cls = "zero" /\ b.cls = "inf" THEN NaN
    ELSE IF a.cls = "inf" \/ b.cls = "inf" THEN Inf(a.sgn * b.sgn)
    ELSE IF a.cls = "zero" \/ b.cls = "zero" THEN Zero(a.sgn * b.sgn)
    ELSE Fin(a.sgn * b.sgn, a.num * b.num, a.den * b.den)

FNeg(a) == IF a.cls = "nan" THEN NaN ELSE [a EXCEPT !.sgn = -a.sgn]

FAdd(a, b) ==
    IF a.cls = "nan" \/ b.cls = "nan" THEN NaN
    ELSE IF a.cls = "inf" /\ b.cls = "inf"
    THEN (IF a.sgn = b.sgn THEN a ELSE NaN)
    ELSE IF a.cls = "inf" THEN a
    ELSE IF b.cls = "inf" THEN b
    ELSE IF a.cls = "zero" /\ b.cls = "zero"
    THEN (IF a.sgn = -1 /\ b.sgn = -1 THEN Zero(-1) ELSE Zero(1))
    ELSE IF a.cls = "zero" THEN b
    ELSE IF b.cls = "zero" THEN a
    ELSE FromRat(a.sgn * a.num * b.den + b.sgn * b.num * a.den, a.den * b.den)

FSub(a, b) == FAdd(a, FNeg(b))

\* x < k and x > k for a float x that is no NaN and an integer k
FLessInt(x, k) ==
    IF x.cls = "inf" THEN x.sgn = -1
    ELSE IF x.cls = "zero" THEN 0 < k
    ELSE x.sgn * x.num < k * x.den

FGreaterInt(x, k) ==
    IF x.cls = "inf" THEN x.sgn = 1
    ELSE IF x.cls = "zero" THEN 0 > k
    ELSE x.sgn * x.num > k * x.den

\* np.clip(x, lo, hi): a NaN stays a NaN
clip(x, lo, hi) ==
    IF x.cls = "nan" THEN NaN
    ELSE IF FLessInt(x, lo) THEN FromRat(lo, 1)
    ELSE IF FGreaterInt(x, hi) THEN FromRat(hi, 1)
    ELSE x

-----------------------------------------------------------------------------
(* calculate_oxygen_saturation *)

RECURSIVE SeqMax(_, _)
SeqMax(x, k) ==
    IF k = Len(x) THEN x[k]
    ELSE LET m == SeqMax(x, k + 1) IN IF x[k] > m THEN x[k] ELSE m

RECURSIVE SeqMin(_, _)
SeqMin(x, k) ==
    IF k = Len(x) THEN x[k]
    ELSE LET m == SeqMin(x, k + 1) IN IF x[k] < m THEN x[k] ELSE m

RECURSIVE SeqSum(_, _)
SeqSum(x, k) == IF k > Len(x) THEN 0 ELSE x[k] + SeqSum(x, k + 1)

\* np.ptp of a non-empty array: max - min
ptp(x) == SeqMax(x, 1) - SeqMin(x, 1)

\* np.mean of a non-empty array
mean(x) == FromRat(SeqSum(x, 1), Len(x))

ClipLow == 85

ClipHigh == 100

\* line 57
RawSpO2(ac_red, dc_red, ac_ir, dc_ir) ==
    FSub(FromRat(110, 1),
         FDiv(FMul(FromRat(25, 1), FDiv(ac_red, dc_red)), FDiv(ac_ir, dc_ir)))

\* the outcome of calculate_oxygen_saturation(red, ir); np.ptp refuses an
\* empty array
calculate_oxygen_saturation(red, ir) ==
    IF Len(red) = 0 \/ Len(ir) = 0
    THEN [kind |-> "raise", exc |-> "ValueError"]
    ELSE LET ac_red == FromRat(ptp(red), 1)
             dc_red == mean(red)
             ac_ir == FromRat(ptp(ir), 1)
             dc_ir == mean(ir)
             spo2 == RawSpO2(ac_red, dc_red, ac_ir, dc_ir)
         IN [kind |-> "return", value |-> clip(spo2, ClipLow, ClipHigh)]

\* the longest channel and the largest sample magnitude considered
MaxChanLen == 2

MaxAmp == 2

Channels == SeqsUpTo((-MaxAmp)..MaxAmp, MaxChanLen)

SpO2Idle ==
    /\ ppg_red = <<>>
    /\ ppg_ir = <<>>
    /\ spo2_result = Idle

SpO2Init ==
    /\ ppg_red \in Channels
    /\ ppg_ir \in Channels
    /\ spo2_result = Idle

CallOxygenSaturation ==
    /\ spo2_result = Idle
    /\ spo2_result' = calculate_oxygen_saturation(ppg_red, ppg_ir)
    /\ UNCHANGED <<ppg_red, ppg_ir>>
    /\ UNCHANGED <<scriptVars, hrVars>>

-----------------------------------------------------------------------------
(* Specifications *)

\* one run of the script
Init == ScriptInit /\ HRIdle /\ SpO2Idle

Next == ScriptNext

Spec == Init /\ [][Next]_vars

\* one call of calculate_heart_rate
HeartRateInit == ScriptIdle /\ HRInit /\ SpO2Idle

HeartRateNext == CallHeartRate

SpecHeartRate == HeartRateInit /\ [][HeartRateNext]_vars

\* one call of calculate_oxygen_saturation
OxygenInit == ScriptIdle /\ HRIdle /\ SpO2Init

OxygenNext == CallOxygenSaturation

SpecOxygen == OxygenInit /\ [][OxygenNext]_vars

-----------------------------------------------------------------------------
(* Properties of the script *)

\* the script has assigned category (line 90 has run)
Categorized ==
    pc \in {"thresholds", "check", "evaluate", "alert", "report"}
        \/ (pc = "done" /\ raised = "none")

\* the script has assigned thresh (line 91 has run)
LookedUp ==
    pc \in {"check", "evaluate", "alert", "report"}
        \/ (pc = "done" /\ raised = "none")

\* the script has built reasons (lines 102-108 have run)
Evaluated ==
    pc \in {"alert", "report"} \/ (pc = "done" /\ raised = "none" /\ thresh # None)

\* the ages from -1 to 15 years in steps of a hundredth (0.99, 1.0, 4.99,
\* 5.0, 12.99 and 13.0 among them) each fall in exactly the band they belong to
FractionalAgesCategorized ==
    \A h \in (-100)..1500 :
        LET c == get_patient_category(Num(h, 100))
        IN /\ c \in KnownCategories
           /\ c = "infant" <=> h < 100
           /\ c = "preschooler" <=> (100 <= h /\ h < 500)
           /\ c = "school_age" <=> (500 <= h /\ h < 1300)
           /\ c = "adult" <=> h >= 1300

\* C1: the category is a total function of the age with no gaps and no
\* overlaps: no age gives unknown; an age below 1 gives infant, from 1 and
\* below 5 preschooler, from 5 and below 13 school_age, from 13 on adult, so
\* the ages 1, 5 and 13 fall in the upper category
CategorizeTotal ==
    /\ FractionalAgesCategorized
    /\ get_patient_category(None) = "unknown"
    /\ Categorized =>
        /\ patient_age = None => category = "unknown"
        /\ patient_age # None =>
            /\ patient_age.den = 1
            /\ category \in KnownCategories
            /\ category = "infant" <=> patient_age.num < 1
            /\ category = "preschooler" <=> (1 <= patient_age.num /\ patient_age.num < 5)
            /\ category = "school_age" <=> (5 <= patient_age.num /\ patient_age.num < 13)
            /\ category = "adult" <=> patient_age.num >= 13

\* a patient aged exactly 13 has been categorized as an adult
CategorizeTotalWitness ==
    pc = "thresholds" /\ patient_age = IntVal(13) /\ category = "adult"

\* categories no row of the table is keyed by
UnlistedCategories == {"unknown", "unset", "", "Adult", "neonate"}

RECURSIVE Labels(_)
Labels(rs) == IF rs = <<>> THEN <<>> ELSE <<Head(rs).label>> \o Labels(Tail(rs))

\* C3: the reasons are exactly those of low oxygen saturation (SpO2 < min),
\* high respiratory rate (RR > max) and abnormal heart rate (HR < low or
\* HR > high) whose condition holds, in that order; a value at its cutoff is
\* no violation, there is at most one heart-rate reason, and there is no
\* reason when no condition holds; SpO2 90, RR 50, HR 130 on an adult gives
\* all three
EvaluateExact ==
    Evaluated =>
        LET low == oxygen_saturation_value < thresh.oxygen_saturation
            high == respiratory_rate_value > thresh.respiratory_rate
            abnormal == \/ heart_rate_value < thresh.heart_rate_low
                        \/ heart_rate_value > thresh.heart_rate_high
            expected == (IF low THEN <<"Low Oxygen Saturation">> ELSE <<>>)
                        \o (IF high THEN <<"High Respiratory Rate">> ELSE <<>>)
                        \o (IF abnormal THEN <<"Abnormal Heart Rate">> ELSE <<>>)
        IN /\ Labels(reasons) = expected
           /\ \A i \in DOMAIN reasons :
                  reasons[i].value =
                      CASE reasons[i].label = "Low Oxygen Saturation" ->
                               oxygen_saturation_value
                        [] reasons[i].label = "High Respiratory Rate" ->
                               respiratory_rate_value
                        [] OTHER -> heart_rate_value
           /\ (category = "adult" /\ oxygen_saturation_value = 90
                   /\ respiratory_rate_value = 50 /\ heart_rate_value = 130) =>
                  Labels(reasons) = <<"Low Oxygen Saturation",
                                      "High Respiratory Rate", "Abnormal Heart Rate">>
           /\ (oxygen_saturation_value = thresh.oxygen_saturation
                   /\ respiratory_rate_value = thresh.respiratory_rate
                   /\ heart_rate_value \in {thresh.heart_rate_low,
                                            thresh.heart_rate_high}) =>
                  reasons = <<>>

\* an adult with SpO2 90, RR 50 and HR 130 has been evaluated
EvaluateExactWitness ==
    /\ pc = "alert"
    /\ category = "adult"
    /\ oxygen_saturation_value = 90
    /\ respiratory_rate_value = 50
    /\ heart_rate_value = 130
    /\ Len(reasons) = 3

\* C4: an alert reaches the sink if and only if there are reasons; then it is
\* exactly one alert, for the assessed patient, with the fixed emergency
\* message and all the reasons joined in their order; nothing reaches the
\* sink before the reasons are checked, when there are none, or when the
\* category is unknown
AlertIffReasons ==
    /\ pc \in {"fetch", "categorize", "thresholds", "check", "evaluate", "alert"} =>
           alerts = <<>>
    /\ pc \in {"report", "done"} =>
           /\ alerts # <<>> <=> reasons # <<>>
           /\ reasons # <<>> =>
                  alerts = << [patient |-> "1",
                               message |-> "ALERT: Seek Emergency Care (ER) Immediately!",
                               reason |-> [sep |-> " | ", parts |-> reasons]] >>
    /\ category = "unknown" => alerts = <<>>

\* the script has ended after delivering one alert that carries two reasons
AlertIffReasonsWitness ==
    /\ pc = "done"
    /\ Len(reasons) = 2
    /\ Len(alerts) = 1
    /\ alerts[1].reason.parts = reasons

\* C5: for each known category the lookup gives exactly the row of the
\* table (SpO2 min, RR max, HR low, HR high): infant 94, 60, 60, 120;
\* preschooler 94, 40, 60, 110; school_age 94, 30, 60, 100; adult 92, 25,
\* 60, 100
ThresholdTable ==
    (LookedUp /\ category \in KnownCategories) =>
        LET row == <<thresh.oxygen_saturation, thresh.respiratory_rate,
                     thresh.heart_rate_low, thresh.heart_rate_high>>
        IN /\ DOMAIN thresh = {"kind", "oxygen_saturation", "respiratory_rate",
                               "heart_rate_low", "heart_rate_high"}
           /\ category = "infant" => row = <<94, 60, 60, 120>>
           /\ category = "preschooler" => row = <<94, 40, 60, 110>>
           /\ category = "school_age" => row = <<94, 30, 60, 100>>
           /\ category = "adult" => row = <<92, 25, 60, 100>>

\* the thresholds of an adult have been looked up
ThresholdTableWitness ==
    pc = "check" /\ category = "adult" /\ thresh.oxygen_saturation = 92

\* C10, as claimed: with an unknown category the assessment still completes
\* the vitals half and reports it
PartialResultWhenUnknown ==
    (pc = "done" /\ category = "unknown") =>
        \E i \in DOMAIN out :
            out[i].text \in {"Oxygen Saturation", "Respiratory Rate", "Heart Rate"}

-----------------------------------------------------------------------------
(* Properties of calculate_heart_rate *)

\* the call has been made with a sampling rate find_peaks accepts
HeartRateCalled == hr_result # Idle /\ sampling_rate >= 2

\* C6, as claimed: with fewer than 2 peaks the call fails with
\* InsufficientSignalError
HeartRateFailsOnFewPeaks ==
    (HeartRateCalled /\ Len(find_peaks(ppg_signal, sampling_rate)) < 2) =>
        hr_result = [kind |-> "raise", exc |-> "InsufficientSignalError"]

\* a signal of 90 samples whose only peaks are at the indices 10, 35, 60, 85
ExampleSignal == [i \in 1..90 |-> IF (i - 1) \in {10, 35, 60, 85} THEN 1 ELSE 0]

\* at 50 Hz the example signal gives exactly 120 beats per minute
ExampleHeartRate ==
    /\ find_peaks(ExampleSignal, 50) = <<10, 35, 60, 85>>
    /\ \A o \in HeartRateOutcomes(ExampleSignal, 50) :
           o.kind = "return" /\ RatEq(o.value, Rat(120, 1))

\* C7: with at least 2 peaks the call returns 60 * sampling_rate * (number
\* of peaks - 1) / (last peak index - first peak index), which is 60 over
\* the mean interval in seconds; peaks at 10, 35, 60, 85 at 50 Hz give 120
HeartRateFormula ==
    /\ ExampleHeartRate
    /\ HeartRateCalled =>
           LET peaks == find_peaks(ppg_signal, sampling_rate)
               n == Len(peaks)
           IN n >= 2 =>
                  /\ hr_result.kind = "return"
                  /\ RatEq(hr_result.value,
                           Rat(60 * sampling_rate * (n - 1), peaks[n] - peaks[1]))

\* the rate of a signal with three peaks, unevenly spaced, has been returned
HeartRateFormulaWitness ==
    /\ hr_result # Idle
    /\ sampling_rate = 4
    /\ find_peaks(ppg_signal, sampling_rate) = <<1, 3, 6>>
    /\ hr_result.kind = "return"

-----------------------------------------------------------------------------
(* Properties of calculate_oxygen_saturation *)

\* C8, as claimed: every value returned lies in [85, 100]
SpO2InBand ==
    (spo2_result # Idle /\ spo2_result.kind = "return") =>
        /\ spo2_result.value.cls # "nan"
        /\ ~FLessInt(spo2_result.value, 85)
        /\ ~FGreaterInt(spo2_result.value, 100)

\* C9, as claimed: with a zero DC level in either channel the call fails and
\* returns no number
DegenerateSignalSurfaced ==
    (/\ spo2_result # Idle
     /\ Len(ppg_red) > 0
     /\ Len(ppg_ir) > 0
     /\ (SeqSum(ppg_red, 1) = 0 \/ SeqSum(ppg_ir, 1) = 0)) =>
        spo2_result.kind = "raise"

====
